---------------------------- MODULE Spec2Model ----------------------------
(***************************************************************************)
(* Model of openedx/core/djangoapps/notifications/utils.py:                *)
(*   aggregate_notification_configs, filter_out_visible_notifications,     *)
(*   get_notification_types_with_visibility_settings, get_list_in_batches. *)
(*                                                                         *)
(* A Python dict is a TLA+ function whose DOMAIN is the dict's key set, so *)
(* a missing key is a key outside the DOMAIN and an unchecked lookup of it *)
(* is a KeyError.  A Python list is a sequence.                            *)
(***************************************************************************)
EXTENDS Integers, Sequences, FiniteSets, TLC

VARIABLES
    default_config,   \* the caller's default config object (argument 1)
    original,         \* contents of default_config when it was constructed
    configs_list,     \* argument 2 of the latest call
    result_config,    \* the deepcopy made by the latest call (<<>> if none)
    returned,         \* which object the latest call returned a reference to
    exception,        \* the exception the latest call ended in, or "none"
    phase,            \* "idle" | "returned" | "raised" | "mutated"
    calls,            \* number of calls made so far
    user_preferences, \* the preference config object handed to the filter
    before,           \* contents of user_preferences when the filter was called
    registry,         \* notifications_with_visibility of the filter call
    user_forum_roles, \* the user's forum roles
    user_course_roles,\* the user's course access roles
    filtered,         \* TRUE once the filter has returned
    input_list,       \* argument 1 of get_list_in_batches
    batch_size,       \* argument 2 of get_list_in_batches
    index,            \* the generator's loop variable
    batches,          \* the chunks yielded so far, in order
    exhausted         \* TRUE once the generator has ended

aggvars == <<default_config, original, configs_list, result_config,
             returned, exception, phase, calls>>

filtervars == <<user_preferences, before, registry, user_forum_roles,
                user_course_roles, filtered>>

batchvars == <<input_list, batch_size, index, batches, exhausted>>

vars == <<aggvars, filtervars, batchvars>>

-----------------------------------------------------------------------------
(* Bounds of the model *)

MaxConfigs == 2     \* longest configs_list passed to the aggregator
MaxCalls == 2       \* calls in a sequence of aggregations on one default
MaxSeqConfigs == 1  \* longest configs_list within such a sequence
MaxVisibleTo == 2   \* longest allowed-role list of a notification type
MaxLen == 10        \* longest input_list given to get_list_in_batches
MaxBatch == 4       \* largest batch_size given to get_list_in_batches

-----------------------------------------------------------------------------
(* dict primitives *)

EmptyDict == <<>>

Get(d, k, dflt) == IF k \in DOMAIN d THEN d[k] ELSE dflt

SetItem(d, k, v) == [x \in (DOMAIN d) \cup {k} |-> IF x = k THEN v ELSE d[x]]

Pop(d, k) == [x \in (DOMAIN d) \ {k} |-> d[x]]

SetOf(list) == {list[i] : i \in 1..Len(list)}

\* list(a_set): the elements of a_set, once each, in the iteration order
\* the interpreter happens to give the set (order: a sequence holding every
\* possible element exactly once)
RECURSIVE ListOf(_, _)
ListOf(a_set, order) ==
    IF order = <<>> THEN <<>>
    ELSE IF Head(order) \in a_set
         THEN <<Head(order)>> \o ListOf(a_set, Tail(order))
         ELSE ListOf(a_set, Tail(order))

\* outcome of a block of code: it completes with a value, or an exception
\* propagates out of it
Return(v) == [raised |-> "none", value |-> v]
Raise(e) == [raised |-> e, value |-> EmptyDict]

-----------------------------------------------------------------------------
(* aggregate_notification_configs *)

Fields == <<"web", "push", "email">>

\* `x = y` where the code has `x |= y`
OrAssignOverwrites(x, y) == y

\* `x |= y` on two bools
OrAssign(x, y) == x \/ y

\* the membership test that guards the merge of one override type
TypeInDefault(type_key, notification_types) == type_key \in DOMAIN notification_types

\* the cadence the docstring and the comment name: always "Daily"
CadenceAlwaysDaily(default_type, type_config) == "Daily"

\* the cadence taken from the override when it carries one
CadenceOfOverride(default_type, type_config) ==
    IF "email_cadence" \in DOMAIN type_config
    THEN type_config["email_cadence"]
    ELSE default_type["email_cadence"]

\* the value assigned to the merged type's email_cadence
CadenceOf(default_type, type_config) == default_type["email_cadence"]

\* for field in ["web", "push", "email"]: if field in type_config: ... |= ...
RECURSIVE MergeFields(_, _, _)
MergeFields(type_result, type_config, fields) ==
    IF fields = <<>> THEN Return(type_result)
    ELSE LET field == Head(fields) IN
         IF field \in DOMAIN type_config
         THEN IF field \notin DOMAIN type_result
              THEN Raise("KeyError")
              ELSE MergeFields(
                       [type_result EXCEPT ![field] = OrAssign(@, type_config[field])],
                       type_config, Tail(fields))
         ELSE MergeFields(type_result, type_config, Tail(fields))

\* the loop body without the `if type_key in ...` test: the override's type
\* config is stored under its key
MergeTypeUnguarded(category_config, default_category, type_key, type_config) ==
    IF "notification_types" \notin DOMAIN category_config
    THEN Raise("KeyError")
    ELSE Return([category_config EXCEPT !["notification_types"] =
                    SetItem(@, type_key, type_config)])

\* body of the loop over other_cat_config["notification_types"].items()
MergeType(category_config, default_category, type_key, type_config) ==
    IF "notification_types" \notin DOMAIN category_config
    THEN Raise("KeyError")
    ELSE IF ~TypeInDefault(type_key, category_config["notification_types"])
    THEN Return(category_config)
    ELSE LET merged == MergeFields(category_config["notification_types"][type_key],
                                   type_config, Fields)
         IN  IF merged.raised # "none" THEN merged
             ELSE IF \/ "notification_types" \notin DOMAIN default_category
                     \/ type_key \notin DOMAIN default_category["notification_types"]
                     \/ "email_cadence" \notin
                            DOMAIN default_category["notification_types"][type_key]
             THEN Raise("KeyError")
             ELSE Return(
                 [category_config EXCEPT !["notification_types"] =
                     SetItem(@, type_key,
                         SetItem(merged.value, "email_cadence",
                             CadenceOf(default_category["notification_types"][type_key],
                                       type_config)))])

\* the loop over other_cat_config["notification_types"].items(); every
\* exception it can end in is a KeyError, whatever the iteration order
RECURSIVE MergeTypes(_, _, _, _)
MergeTypes(category_config, default_category, other_types, keys) ==
    IF keys = {} THEN Return(category_config)
    ELSE LET type_key == CHOOSE k \in keys : TRUE
             step == MergeType(category_config, default_category,
                               type_key, other_types[type_key])
         IN  IF step.raised # "none" THEN step
             ELSE MergeTypes(step.value, default_category, other_types,
                             keys \ {type_key})

\* body of the loop over configs_list, after `if category not in config`
MergeCategory(category_config, default_category, other_cat_config, order) ==
    IF "enabled" \notin DOMAIN category_config
    THEN Raise("KeyError")
    ELSE LET c1 == [category_config EXCEPT !["enabled"] =
                        OrAssign(@, Get(other_cat_config, "enabled", FALSE))]
             c2 == IF "core_notification_types" \in DOMAIN other_cat_config
                   THEN SetItem(c1, "core_notification_types",
                            ListOf(SetOf(Get(c1, "core_notification_types", <<>>))
                                     \cup SetOf(other_cat_config["core_notification_types"]),
                                   order))
                   ELSE c1
         IN  IF "notification_types" \in DOMAIN other_cat_config
             THEN MergeTypes(c2, default_category,
                             other_cat_config["notification_types"],
                             DOMAIN other_cat_config["notification_types"])
             ELSE Return(c2)

\* for config in configs_list: ... (one category)
RECURSIVE MergeConfigs(_, _, _, _, _)
MergeConfigs(category, category_config, default_category, configs, order) ==
    IF configs = <<>> THEN Return(category_config)
    ELSE LET config == Head(configs) IN
         IF category \notin DOMAIN config
         THEN MergeConfigs(category, category_config, default_category,
                           Tail(configs), order)
         ELSE LET step == MergeCategory(category_config, default_category,
                                        config[category], order)
              IN  IF step.raised # "none" THEN step
                  ELSE MergeConfigs(category, step.value, default_category,
                                    Tail(configs), order)

\* the part of aggregate_notification_configs after the empty-list return:
\* deepcopy, then the loop over the categories of the copy
Merge(dflt, configs, order) ==
    LET per == [category \in DOMAIN dflt |->
                   MergeConfigs(category, dflt[category], dflt[category],
                                configs, order)]
    IN  IF \E category \in DOMAIN dflt : per[category].raised # "none"
        THEN Raise("KeyError")
        ELSE Return([category \in DOMAIN dflt |-> per[category].value])

\* aggregate_notification_configs(default_config, configs_list): the
\* exception it ends in, the value it returns, and whether that value is the
\* default_config object itself (alias) or the deepcopy made by the call
aggregate_notification_configs(dflt, configs, order) ==
    IF configs = <<>>
    THEN [raised |-> "none", value |-> dflt, alias |-> TRUE]
    ELSE LET merged == Merge(dflt, configs, order)
         IN  [raised |-> merged.raised, value |-> merged.value, alias |-> FALSE]

-----------------------------------------------------------------------------
(* Inputs of the aggregator *)

Cadences == {"Daily", "Weekly"}

\* iteration orders a set of type names can have
Orders == {<<"new_comment", "grade_posted">>, <<"grade_posted", "new_comment">>}

TypeConfig(w, p, e, c) == [web |-> w, push |-> p, email |-> e, email_cadence |-> c]

CategoryConfig(en, core, types) ==
    [enabled |-> en, core_notification_types |-> core, notification_types |-> types]

DefaultTypeConfigs ==
    {TypeConfig(w, p, e, c) : w \in BOOLEAN, p \in BOOLEAN, e \in BOOLEAN, c \in Cadences}

\* default configs of the documented shape
WellFormedDefaults ==
    {"discussion" :> CategoryConfig(en, <<"new_comment">>, "new_comment" :> tc) :
        en \in BOOLEAN, tc \in DefaultTypeConfigs}
    \cup
    {("discussion" :> CategoryConfig(FALSE, <<>>,
                          ("new_comment" :> tc1) @@ ("grade_posted" :> tc2)))
      @@ ("grading" :> CategoryConfig(en, <<"grade_posted", "grade_posted">>,
                          "grade_posted" :> tc2)) :
        en \in BOOLEAN,
        tc1 \in {TypeConfig(FALSE, FALSE, FALSE, "Daily"),
                 TypeConfig(TRUE, FALSE, TRUE, "Weekly")},
        tc2 \in {TypeConfig(FALSE, TRUE, FALSE, "Weekly"),
                 TypeConfig(FALSE, FALSE, FALSE, "Daily")}}
    \cup
    {EmptyDict,
     "grading" :> [enabled |-> TRUE, notification_types |-> EmptyDict]}

\* default configs with a key of the documented shape missing
MalformedDefaults ==
    {"discussion" :> [core_notification_types |-> <<>>,
                      notification_types |->
                          "new_comment" :> TypeConfig(FALSE, FALSE, FALSE, "Daily")],
     "discussion" :> [enabled |-> FALSE, core_notification_types |-> <<>>],
     "discussion" :> CategoryConfig(FALSE, <<>>,
                         "new_comment" :> [push |-> FALSE, email |-> FALSE,
                                           email_cadence |-> "Daily"]),
     "discussion" :> CategoryConfig(FALSE, <<>>,
                         "new_comment" :> [web |-> FALSE, push |-> FALSE,
                                           email |-> FALSE])}

DefaultConfigs == WellFormedDefaults \cup MalformedDefaults

OverrideTypeConfigs ==
    {[push |-> TRUE, email |-> FALSE],
     TypeConfig(FALSE, FALSE, TRUE, "Daily")}

\* per-course configs: keys of the documented shape may be missing, and
\* categories and types outside the default taxonomy may be present
OverrideConfigs ==
    {"discussion" :> [notification_types |-> "new_comment" :> tc] :
        tc \in OverrideTypeConfigs}
    \cup
    {"discussion" :> [enabled |-> TRUE,
                      notification_types |->
                          "new_comment" :> [web |-> TRUE, email_cadence |-> "Weekly"]],
     "discussion" :> CategoryConfig(FALSE, <<"grade_posted">>,
                         "grade_posted" :> TypeConfig(TRUE, TRUE, TRUE, "Weekly")),
     "grading" :> CategoryConfig(TRUE, <<"new_comment">>,
                      ("new_comment" :> TypeConfig(TRUE, TRUE, TRUE, "Weekly"))
                      @@ ("grade_posted" :> [email |-> TRUE, email_cadence |-> "Daily"]))}

RECURSIVE ListsUpTo(_, _)
ListsUpTo(S, n) ==
    IF n = 0 THEN {<<>>}
    ELSE LET shorter == ListsUpTo(S, n - 1)
         IN  shorter \cup {Append(l, x) : l \in shorter, x \in S}

\* the configs_list arguments a caller holding default config d may pass
ConfigsLists(d) == ListsUpTo(OverrideConfigs \cup {d}, MaxConfigs)

\* the same, for a call within a sequence of calls
SeqConfigsLists(d) == ListsUpTo(OverrideConfigs \cup {d}, MaxSeqConfigs)

-----------------------------------------------------------------------------
(* One call of the aggregator *)

AggIdle ==
    /\ default_config = EmptyDict
    /\ original = EmptyDict
    /\ configs_list = <<>>
    /\ result_config = EmptyDict
    /\ returned = "none"
    /\ exception = "none"
    /\ phase = "idle"
    /\ calls = 0

FilterIdle ==
    /\ user_preferences = EmptyDict
    /\ before = EmptyDict
    /\ registry = EmptyDict
    /\ user_forum_roles = <<>>
    /\ user_course_roles = <<>>
    /\ filtered = FALSE

BatchIdle ==
    /\ input_list = <<>>
    /\ batch_size = 1
    /\ index = 0
    /\ batches = <<>>
    /\ exhausted = FALSE

InitAgg ==
    /\ FilterIdle
    /\ BatchIdle
    /\ default_config \in DefaultConfigs
    /\ original = default_config
    /\ configs_list = <<>>
    /\ result_config = EmptyDict
    /\ returned = "none"
    /\ exception = "none"
    /\ phase = "idle"
    /\ calls = 0

Aggregate(configs, order) ==
    LET r == aggregate_notification_configs(default_config, configs, order) IN
    /\ configs_list' = configs
    /\ calls' = calls + 1
    /\ exception' = r.raised
    /\ phase' = IF r.raised = "none" THEN "returned" ELSE "raised"
    /\ returned' = IF r.raised # "none" THEN "none"
                   ELSE IF r.alias THEN "default" ELSE "copy"
    /\ result_config' = IF r.raised = "none" /\ ~r.alias THEN r.value ELSE EmptyDict
    /\ UNCHANGED <<default_config, original>>

\* the config object the latest call handed to its caller
Result == IF returned = "default" THEN default_config ELSE result_config

CallAggregate ==
    /\ phase = "idle"
    /\ \E configs \in ConfigsLists(default_config), order \in Orders :
           Aggregate(configs, order)
    /\ UNCHANGED <<filtervars, batchvars>>

Init == InitAgg

Next == CallAggregate

Spec == Init /\ [][Next]_vars

-----------------------------------------------------------------------------
(* A sequence of calls on one default config, the caller changing what each
   call returned *)

\* the configs one in-place change by the caller can turn config into
Mutations(config) ==
    {SetItem(config, category, SetItem(config[category], "enabled", b)) :
        category \in DOMAIN config, b \in BOOLEAN}
    \cup
    UNION {
        IF "notification_types" \in DOMAIN config[category]
        THEN LET types == config[category]["notification_types"] IN
             {SetItem(config, category,
                  SetItem(config[category], "notification_types", Pop(types, type_key))) :
                 type_key \in DOMAIN types}
             \cup
             {SetItem(config, category,
                  SetItem(config[category], "notification_types",
                      SetItem(types, type_key, SetItem(types[type_key], "web", b)))) :
                 type_key \in DOMAIN types, b \in BOOLEAN}
             \cup
             {SetItem(config, category,
                  SetItem(config[category], "notification_types",
                      SetItem(types, type_key,
                          SetItem(types[type_key], "email_cadence", c)))) :
                 type_key \in DOMAIN types, c \in Cadences}
        ELSE {} : category \in DOMAIN config}

CallInSequence ==
    /\ calls < MaxCalls
    /\ \E configs \in SeqConfigsLists(default_config), order \in Orders :
           Aggregate(configs, order)
    /\ UNCHANGED <<filtervars, batchvars>>

\* the caller changes the returned object in place; when that object is the
\* default_config object, it is default_config that changes
CallerMutates ==
    /\ phase = "returned"
    /\ \E changed \in Mutations(Result) \ {Result} :
           /\ IF returned = "default"
              THEN default_config' = changed /\ result_config' = result_config
              ELSE result_config' = changed /\ default_config' = default_config
    /\ phase' = "mutated"
    /\ UNCHANGED <<original, configs_list, returned, exception, calls>>
    /\ UNCHANGED <<filtervars, batchvars>>

NextCallers == CallInSequence \/ CallerMutates

SpecCallers == InitAgg /\ [][NextCallers]_vars

\* C4: through any sequence of calls, each followed by a change of the
\* returned config by its caller, default_config keeps its original contents.
C4_DefaultNeverChanged == default_config = original

-----------------------------------------------------------------------------
(* filter_out_visible_notifications and the registry it is given *)

\* the loop over is_visible_to that sets is_visible
IsVisible(is_visible_to, forum_roles, course_roles) ==
    \E i \in 1..Len(is_visible_to) :
        \/ is_visible_to[i] \in SetOf(forum_roles)
        \/ is_visible_to[i] \in SetOf(course_roles)

\* the filter that keeps only the types the registry names as visible
FilterTypesDefaultHidden(notification_types, visibility, keys, forum_roles, course_roles) ==
    [notification_type \in
        {t \in DOMAIN notification_types :
            /\ t \in DOMAIN visibility
            /\ IsVisible(visibility[t], forum_roles, course_roles)}
     |-> notification_types[notification_type]]

\* the loop over notifications_with_visibility.items() for one app
RECURSIVE FilterTypes(_, _, _, _, _)
FilterTypes(notification_types, visibility, keys, forum_roles, course_roles) ==
    IF keys = {} THEN notification_types
    ELSE LET notification_type == CHOOSE k \in keys : TRUE
             rest == keys \ {notification_type}
         IN  IF IsVisible(visibility[notification_type], forum_roles, course_roles)
             THEN FilterTypes(notification_types, visibility, rest,
                              forum_roles, course_roles)
             ELSE IF notification_type \in DOMAIN notification_types
             THEN FilterTypes(Pop(notification_types, notification_type),
                              visibility, rest, forum_roles, course_roles)
             ELSE FilterTypes(notification_types, visibility, rest,
                              forum_roles, course_roles)

\* the contents of user_preferences when the function returns it
filter_out_visible_notifications(preferences, visibility, forum_roles, course_roles) ==
    [app \in DOMAIN preferences |->
        IF "notification_types" \in DOMAIN preferences[app]
        THEN [preferences[app] EXCEPT !["notification_types"] =
                 FilterTypes(@, visibility, DOMAIN visibility,
                             forum_roles, course_roles)]
        ELSE preferences[app]]

\* `if notification_type.get('visible_to')`: the key is there and its list
\* is not empty
HasVisibleTo(notification_type) ==
    /\ "visible_to" \in DOMAIN notification_type
    /\ notification_type["visible_to"] # <<>>

\* the registry built from the catalog COURSE_NOTIFICATION_TYPES
get_notification_types_with_visibility_settings(catalog) ==
    [name \in {catalog[k]["name"] : k \in {k \in DOMAIN catalog : HasVisibleTo(catalog[k])}}
     |-> catalog[name]["visible_to"]]

(* Inputs of the filter *)

RoleNames == {"staff", "moderator"}

RoleLists == ListsUpTo(RoleNames, MaxVisibleTo)

RegistryTypes == {"grade_posted", "new_comment"}

\* every Dict[str, List[str]] over the registry's types
Registries == UNION {[T -> RoleLists] : T \in SUBSET RegistryTypes}

\* catalogs: every entry has a name, and may have a visible_to list
Catalogs ==
    {[k \in RegistryTypes |->
         IF with[k] THEN [name |-> k, visible_to |-> lists[k]] ELSE [name |-> k]] :
        with \in [RegistryTypes -> BOOLEAN], lists \in [RegistryTypes -> RoleLists]}

PreferenceTypes ==
    ("grade_posted" :> [web |-> TRUE, push |-> FALSE, email |-> FALSE,
                        email_cadence |-> "Daily"])
    @@ ("new_comment" :> [web |-> FALSE, push |-> TRUE, email |-> FALSE,
                          email_cadence |-> "Weekly"])
    @@ ("new_response" :> [web |-> FALSE, push |-> FALSE, email |-> TRUE,
                           email_cadence |-> "Daily"])

PreferenceConfigs ==
    {("discussion" :> [enabled |-> TRUE, core_notification_types |-> <<"new_comment">>,
                       notification_types |-> [t \in T |-> PreferenceTypes[t]]])
      @@ more :
        T \in SUBSET DOMAIN PreferenceTypes,
        more \in {EmptyDict,
                  "grading" :> [enabled |-> FALSE],
                  "grading" :> [enabled |-> TRUE,
                                notification_types |->
                                    "grade_posted" :> PreferenceTypes["grade_posted"]]}}

ForumRoleLists == {<<>>, <<"moderator">>}
CourseRoleLists == {<<>>, <<"staff">>, <<"learner">>, <<"learner", "staff">>}

InitFilter ==
    /\ AggIdle
    /\ BatchIdle
    /\ user_preferences \in PreferenceConfigs
    /\ before = user_preferences
    /\ registry = EmptyDict
    /\ user_forum_roles \in ForumRoleLists
    /\ user_course_roles \in CourseRoleLists
    /\ filtered = FALSE

Filter(visibility) ==
    /\ ~filtered
    /\ registry' = visibility
    /\ before' = user_preferences
    /\ user_preferences' = filter_out_visible_notifications(
           user_preferences, visibility, user_forum_roles, user_course_roles)
    /\ filtered' = TRUE
    /\ UNCHANGED <<user_forum_roles, user_course_roles, aggvars, batchvars>>

\* remove_preferences_with_no_access: the registry comes from the catalog
RemovePreferencesWithNoAccess ==
    \E catalog \in Catalogs :
        Filter(get_notification_types_with_visibility_settings(catalog))

\* a direct call of filter_out_visible_notifications with any registry
FilterOutVisibleNotifications ==
    \E visibility \in Registries : Filter(visibility)

NextFilter == RemovePreferencesWithNoAccess \/ FilterOutVisibleNotifications

SpecFilter == InitFilter /\ [][NextFilter]_vars

\* the user's roles: forum roles and course access roles together
UserRoles == SetOf(user_forum_roles) \cup SetOf(user_course_roles)

\* visibility as the specification states it
StatedVisible(allowed_roles) ==
    \/ allowed_roles = <<>>
    \/ \E i \in 1..Len(allowed_roles) : allowed_roles[i] \in UserRoles

\* the apps that had a notification_types map when the filter was called
AppsWithTypes == {app \in DOMAIN before : "notification_types" \in DOMAIN before[app]}

C6_FilterOnlyRemoves ==
    filtered =>
        /\ DOMAIN user_preferences = DOMAIN before
        /\ \A app \in DOMAIN before :
               /\ DOMAIN user_preferences[app] = DOMAIN before[app]
               /\ \A key \in DOMAIN before[app] \ {"notification_types"} :
                      user_preferences[app][key] = before[app][key]
        /\ \A app \in AppsWithTypes :
               LET old == before[app]["notification_types"]
                   new == user_preferences[app]["notification_types"]
               IN  /\ DOMAIN new \subseteq DOMAIN old
                   /\ \A t \in DOMAIN new : new[t] = old[t]
                   /\ \A t \in DOMAIN old \ DOMAIN registry : t \in DOMAIN new
        /\ registry = EmptyDict => user_preferences = before

\* the filter removed a type from two categories, kept a type the registry
\* does not name, and kept one the user may see
C6_Witness ==
    /\ filtered
    /\ DOMAIN before = {"discussion", "grading"}
    /\ "notification_types" \in DOMAIN before["grading"]
    /\ DOMAIN before["discussion"]["notification_types"]
           = {"grade_posted", "new_comment", "new_response"}
    /\ DOMAIN user_preferences["discussion"]["notification_types"]
           = {"new_comment", "new_response"}
    /\ DOMAIN user_preferences["grading"]["notification_types"] = {}
    /\ DOMAIN registry = {"grade_posted", "new_comment"}

-----------------------------------------------------------------------------
(* get_list_in_batches *)

\* input_list[lo: hi + 1], one element too many
SliceOneMore(list, lo, hi) ==
    SubSeq(list, lo + 1, IF hi + 1 < Len(list) THEN hi + 1 ELSE Len(list))

\* input_list[lo: hi] for 0 <= lo <= hi: the end is clamped to the length
Slice(list, lo, hi) ==
    SubSeq(list, lo + 1, IF hi < Len(list) THEN hi ELSE Len(list))

Items == {"a", "b"}

InitBatches ==
    /\ AggIdle
    /\ FilterIdle
    /\ input_list \in ListsUpTo(Items, MaxLen)
    /\ batch_size \in 1..MaxBatch
    /\ index = 0
    /\ batches = <<>>
    /\ exhausted = FALSE

\* one turn of `for index in range(0, list_length, batch_size): yield ...`
YieldBatch ==
    /\ ~exhausted
    /\ index < Len(input_list)
    /\ batches' = Append(batches, Slice(input_list, index, index + batch_size))
    /\ index' = index + batch_size
    /\ UNCHANGED <<input_list, batch_size, exhausted, aggvars, filtervars>>

\* the range is used up: the generator ends
EndOfBatches ==
    /\ ~exhausted
    /\ index >= Len(input_list)
    /\ exhausted' = TRUE
    /\ UNCHANGED <<input_list, batch_size, index, batches, aggvars, filtervars>>

NextBatches == YieldBatch \/ EndOfBatches

SpecBatches == InitBatches /\ [][NextBatches]_vars

RECURSIVE Concat(_)
Concat(lists) == IF lists = <<>> THEN <<>> ELSE Head(lists) \o Concat(Tail(lists))

Min(a, b) == IF a < b THEN a ELSE b

\* C10: for a positive batch_size the chunks yielded so far are, in order,
\* consecutive pieces of input_list starting at its front; when the
\* generator ends their concatenation is input_list, there are
\* ceil(len / batch_size) of them, each has batch_size elements except the
\* last, which has between 1 and batch_size, and an empty input gives none.
C10_BatchesPartitionInput ==
    /\ Concat(batches) = SubSeq(input_list, 1, Min(index, Len(input_list)))
    /\ \A i \in 1..Len(batches) :
           /\ Len(batches[i]) >= 1
           /\ Len(batches[i]) <= batch_size
           /\ i < Len(batches) => Len(batches[i]) = batch_size
    /\ exhausted =>
           /\ Concat(batches) = input_list
           /\ Len(batches) = (Len(input_list) + batch_size - 1) \div batch_size
           /\ input_list = <<>> => batches = <<>>

\* ten elements with batch_size 3 gave chunks of sizes 3, 3, 3, 1
C10_Witness ==
    /\ exhausted
    /\ Len(input_list) = 10
    /\ batch_size = 3
    /\ [i \in 1..Len(batches) |-> Len(batches[i])] = <<3, 3, 3, 1>>
    /\ batches[4] = <<input_list[10]>>

-----------------------------------------------------------------------------
(* Properties of one aggregation *)

FieldSet == {Fields[i] : i \in 1..Len(Fields)}

\* the documented shape of a NotificationConfig
WellFormedConfig(config) ==
    \A category \in DOMAIN config :
        /\ {"enabled", "notification_types"} \subseteq DOMAIN config[category]
        /\ \A type_key \in DOMAIN config[category]["notification_types"] :
               FieldSet \cup {"email_cadence"} \subseteq
                   DOMAIN config[category]["notification_types"][type_key]

\* the config has the category and the type, with every key of a TypeConfig
HasFullType(config, category, type_key) ==
    /\ category \in DOMAIN config
    /\ {"enabled", "notification_types"} \subseteq DOMAIN config[category]
    /\ type_key \in DOMAIN config[category]["notification_types"]
    /\ FieldSet \cup {"email_cadence"} \subseteq
           DOMAIN config[category]["notification_types"][type_key]

\* a config with every core_notification_types list read as a set
AsContent(config) ==
    [category \in DOMAIN config |->
        IF "core_notification_types" \in DOMAIN config[category]
        THEN [config[category] EXCEPT !["core_notification_types"] = SetOf(@)]
        ELSE config[category]]

SameContent(a, b) == AsContent(a) = AsContent(b)

\* the overrides of the latest call that hold the category
Holding(category) ==
    {i \in 1..Len(configs_list) : category \in DOMAIN configs_list[i]}

\* the overrides of the latest call that hold the category and the type
HoldingType(category, type_key) ==
    {i \in Holding(category) :
        /\ "notification_types" \in DOMAIN configs_list[i][category]
        /\ type_key \in DOMAIN configs_list[i][category]["notification_types"]}

\* C1: with a non-empty overrides list, every boolean of the result is the
\* logical OR over all sources: a category's enabled is the default's OR the
\* enabled of every override holding the category (missing counts as false),
\* and every web/push/email of a default type is the default's value OR that
\* field in every override holding the category and the type.
C1_BooleansAreOrOfSources ==
    (phase = "returned" /\ configs_list # <<>>) =>
        /\ returned = "copy"
        /\ \A category \in DOMAIN default_config :
            /\ category \in DOMAIN Result
            /\ "enabled" \in DOMAIN default_config[category] =>
                   Result[category]["enabled"] =
                       (\/ default_config[category]["enabled"]
                        \/ \E i \in Holding(category) :
                               Get(configs_list[i][category], "enabled", FALSE))
            /\ "notification_types" \in DOMAIN default_config[category] =>
                   \A type_key \in DOMAIN default_config[category]["notification_types"] :
                       LET dtype == default_config[category]["notification_types"][type_key]
                           rtype == Result[category]["notification_types"][type_key]
                       IN  \A field \in FieldSet \cap DOMAIN dtype :
                               rtype[field] =
                                   (\/ dtype[field]
                                    \/ \E i \in HoldingType(category, type_key) :
                                           Get(configs_list[i][category]
                                                   ["notification_types"][type_key],
                                               field, FALSE))

\* an override raised enabled and a field that the default had false, while
\* another field of the same type stayed false
C1_Witness ==
    /\ phase = "returned"
    /\ Len(configs_list) = 2
    /\ HasFullType(default_config, "discussion", "new_comment")
    /\ ~default_config["discussion"]["enabled"]
    /\ ~default_config["discussion"]["notification_types"]["new_comment"]["web"]
    /\ Result["discussion"]["enabled"]
    /\ Result["discussion"]["notification_types"]["new_comment"]["web"]
    /\ ~Result["discussion"]["notification_types"]["new_comment"]["push"]

C3_NoTaxonomyLeak ==
    phase = "returned" =>
        /\ DOMAIN Result \subseteq DOMAIN default_config
        /\ \A category \in DOMAIN Result :
               "notification_types" \in DOMAIN Result[category] =>
                   /\ "notification_types" \in DOMAIN default_config[category]
                   /\ DOMAIN Result[category]["notification_types"] \subseteq
                          DOMAIN default_config[category]["notification_types"]

\* the overrides held a category and a type the default does not have
C3_Witness ==
    /\ phase = "returned"
    /\ \E i \in 1..Len(configs_list) :
           DOMAIN configs_list[i] \ DOMAIN default_config # {}
    /\ HasFullType(default_config, "discussion", "new_comment")
    /\ \E i \in Holding("discussion") :
           /\ "notification_types" \in DOMAIN configs_list[i]["discussion"]
           /\ DOMAIN configs_list[i]["discussion"]["notification_types"]
                  \ DOMAIN default_config["discussion"]["notification_types"] # {}

\* every reordering of a sequence
Reorderings(list) ==
    {[i \in 1..Len(list) |-> list[p[i]]] : p \in Permutations(1..Len(list))}

\* C7: aggregation is order independent: every permutation of the overrides
\* list gives the same outcome, and the same result when
\* core_notification_types is compared as a set.
C7_OrderIndependent ==
    (phase \in {"returned", "raised"} /\ Len(configs_list) >= 2) =>
        \A reordered \in Reorderings(configs_list), order \in Orders :
            LET other == aggregate_notification_configs(default_config, reordered, order)
            IN  /\ other.raised = exception
                /\ phase = "returned" => SameContent(other.value, Result)

\* two different overrides that both hold a type of the default, one with a
\* field true and one with the same field false, were merged
C7_Witness ==
    /\ phase = "returned"
    /\ Len(configs_list) = 2
    /\ configs_list[1] # configs_list[2]
    /\ HasFullType(default_config, "discussion", "new_comment")
    /\ HoldingType("discussion", "new_comment") = {1, 2}
    /\ \E field \in FieldSet :
           LET t1 == configs_list[1]["discussion"]["notification_types"]["new_comment"]
               t2 == configs_list[2]["discussion"]["notification_types"]["new_comment"]
           IN  /\ field \in DOMAIN t1 /\ field \in DOMAIN t2
               /\ t1[field] /\ ~t2[field]
               /\ Result["discussion"]["notification_types"]["new_comment"][field]

C9_MalformedDefaultError ==
    phase = "raised" => exception = "MalformedDefaultConfiguration"

=============================================================================
